---- MODULE Spec2Model ----
(***************************************************************************)
(* Model of meal_max/models/kitchen_model.py: the Meal dataclass and the   *)
(* six functions create_meal, delete_meal, get_leaderboard,                *)
(* get_meal_by_id, get_meal_by_name and update_meal_stats, run one call at *)
(* a time against the `meals` table.                                       *)
(*                                                                         *)
(* The table definition (sql script) and get_db_connection are not part of *)
(* the modelled file; the table is modelled from the persisted schema of   *)
(* the specification: id (unique key, assigned on insert), meal (unique    *)
(* text), cuisine, price (real), difficulty, deleted (default false),      *)
(* battles (default 0), wins (default 0).                                  *)
(*                                                                         *)
(* Python values: a price is [type, val] with type "int", "float" or       *)
(* "str"; Python compares int and float by value, the REAL column stores   *)
(* every number as a float.  All failures of the module are ValueError;    *)
(* an exception is [exc, msg, about]: its class, the fixed text of its     *)
(* message and the value formatted into the message.                       *)
(***************************************************************************)
EXTENDS Integers, Sequences, FiniteSets, TLC

VARIABLES meals, last, created, procs

vars == <<meals, last, created, procs>>

\* ---------------------------------------------------------------- bounds
\* update_meal_stats is not called once the table holds MaxBattles battles
MaxBattles == 3

\* the leaderboard entry is computed for rows of up to MaxPctBattles battles
MaxPctBattles == 16

\* ---------------------------------------------------------------- inputs
Names == {"Manti", "Sushi"}

Cuisines == {"Turkish", "Japanese"}

Difficulties == {"HIGH", "EXTREME"}

PyInt(n) == [type |-> "int", val |-> n]

PyFloat(n) == [type |-> "float", val |-> n]

PyStr == [type |-> "str", val |-> 0]

Prices == {PyStr, PyInt(-5), PyFloat(0), PyInt(12)}

Ids == {1, 2, 3}

Results == {"win", "loss", "draw"}

SortKeys == {"wins", "win_pct", "invalid"}

\* the callers that run at the same time
Procs == {1, 2}

\* a caller that has called nothing: the function it is in, its arguments,
\* where it is in the function, the row its SELECT fetched, the connections
\* it holds, what the finished call raised, returned and logged
IdleProc ==
  [op |-> "none", args |-> <<>>, pc |-> "idle", seen |-> <<>>, held |-> 0,
   err |-> [exc |-> "none", msg |-> "none", about |-> 0], ret |-> <<>>,
   logged |-> <<>>, mixed |-> FALSE, onDeleted |-> FALSE]

\* ------------------------------------------------------- python helpers
\* isinstance(price, (int, float))
IsNumber(p) == p.type \in {"int", "float"}

\* Python == on two numbers: by value, whatever the type
PyEq(p, q) == IsNumber(p) /\ IsNumber(q) /\ p.val = q.val

\* no exception: the call returned
NoError == [exc |-> "none", msg |-> "none", about |-> 0]

\* raise ValueError(f"... {v} ...")
ValueError(m, v) == [exc |-> "ValueError", msg |-> m, about |-> v]

\* what one call did: the table after it, the exception it raised, the
\* value it returned (a sequence: <<>> is None), the connections it
\* acquired, the statements it executed, the log records it emitted
Outcome(db, err, ret, acquired, issued, logged) ==
  [db |-> db, err |-> err, ret |-> ret, acquired |-> acquired,
   issued |-> issued, logged |-> logged]

\* ------------------------------------------------ the meals table (sqlite)
\* a number stored in the REAL column price comes back as a float
ToReal(p) == [type |-> "float", val |-> p.val]

\* INSERT INTO meals (meal, cuisine, price, difficulty): the unique column
\* meal rejects a second row of that name (sqlite3.IntegrityError), deleted
\* rows included; the new row gets the next id and the column defaults
SqlInsert(db, meal, cuisine, price, difficulty) ==
  IF \E i \in 1..Len(db) : db[i].meal = meal
  THEN [err |-> "IntegrityError", db |-> db]
  ELSE [err |-> "none",
        db |-> Append(db, [id |-> Len(db) + 1, meal |-> meal,
                           cuisine |-> cuisine, price |-> ToReal(price),
                           difficulty |-> difficulty, deleted |-> FALSE,
                           battles |-> 0, wins |-> 0])]

\* SELECT ... FROM meals WHERE id = ? followed by fetchone(): <<row>>, or
\* <<>> for None
SqlSelectById(db, meal_id) ==
  SelectSeq(db, LAMBDA r : r.id = meal_id)

\* SELECT ... FROM meals WHERE meal = ? followed by fetchone()
SqlSelectByName(db, meal_name) ==
  SelectSeq(db, LAMBDA r : r.meal = meal_name)

\* UPDATE meals SET deleted = TRUE WHERE id = ?
SqlSetDeleted(db, meal_id) ==
  [i \in 1..Len(db) |->
     IF db[i].id = meal_id THEN [db[i] EXCEPT !.deleted = TRUE] ELSE db[i]]

\* the win statement adding to wins alone
SqlAddWin_winsOnly(db, meal_id) ==
  [i \in 1..Len(db) |->
     IF db[i].id = meal_id THEN [db[i] EXCEPT !.wins = @ + 1] ELSE db[i]]

\* UPDATE meals SET battles = battles + 1, wins = wins + 1 WHERE id = ?
SqlAddWin(db, meal_id) ==
  [i \in 1..Len(db) |->
     IF db[i].id = meal_id
     THEN [db[i] EXCEPT !.battles = @ + 1, !.wins = @ + 1] ELSE db[i]]

\* UPDATE meals SET battles = battles + 1 WHERE id = ?
SqlAddLoss(db, meal_id) ==
  [i \in 1..Len(db) |->
     IF db[i].id = meal_id THEN [db[i] EXCEPT !.battles = @ + 1] ELSE db[i]]

\* r comes no later than s under ORDER BY <col> DESC; wins * 1.0 / battles
\* is compared as the exact ratio (both rows have battles > 0)
OrderedDesc(r, s, col) ==
  IF col = "wins" THEN r.wins >= s.wins
  ELSE r.wins * s.battles >= s.wins * r.battles

Perms(n) ==
  {f \in [1..n -> 1..n] : \A i, j \in 1..n : i # j => f[i] # f[j]}

\* SqlLeaderboard without the condition deleted = false
SqlLeaderboard_withDeleted(db, col) ==
  LET sel == SelectSeq(db, LAMBDA r : r.battles > 0)
      n == Len(sel)
  IN {rows \in {[i \in 1..n |-> sel[f[i]]] : f \in Perms(n)} :
        \A i \in 1..n - 1 : OrderedDesc(rows[i], rows[i + 1], col)}

\* SELECT ... FROM meals WHERE deleted = false AND battles > 0
\* ORDER BY <col> DESC, then fetchall(): every order of the selected rows
\* that is descending in <col>; the order of rows that tie is sqlite's choice
SqlLeaderboard(db, col) ==
  LET sel == SelectSeq(db, LAMBDA r : ~r.deleted /\ r.battles > 0)
      n == Len(sel)
  IN {rows \in {[i \in 1..n |-> sel[f[i]]] : f \in Perms(n)} :
        \A i \in 1..n - 1 : OrderedDesc(rows[i], rows[i + 1], col)}

\* ------------------------------------------------------------ class Meal
\* Meal.__post_init__: the exception the constructor raises, if any
Meal_post_init(price, difficulty) ==
  IF price.val < 0 THEN ValueError("Price must be a positive value", price)
  ELSE IF difficulty \notin {"LOW", "MED", "HIGH"}
  THEN ValueError("Difficulty must be LOW, MED or HIGH", difficulty)
  ELSE NoError

\* Meal built with the cuisine read from the difficulty column
Meal_shiftedColumns(row) ==
  [id |-> row.id, meal |-> row.meal, cuisine |-> row.difficulty,
   price |-> row.price, difficulty |-> row.difficulty]

\* Meal(id=row[0], meal=row[1], cuisine=row[2], price=row[3],
\*      difficulty=row[4])
Meal(row) ==
  [id |-> row.id, meal |-> row.meal, cuisine |-> row.cuisine,
   price |-> row.price, difficulty |-> row.difficulty]

\* ------------------------------------------------------------ create_meal
\* create_meal testing price < 0: a price of zero reaches the INSERT
create_meal_zeroPrice(db, meal, cuisine, price, difficulty) ==
  IF ~IsNumber(price) \/ price.val < 0
  THEN Outcome(db, ValueError("Invalid price", price), <<>>, 0, <<>>, <<>>)
  ELSE IF difficulty \notin {"LOW", "MED", "HIGH"}
  THEN Outcome(db, ValueError("Invalid difficulty level", difficulty), <<>>,
               0, <<>>, <<>>)
  ELSE LET ins == SqlInsert(db, meal, cuisine, price, difficulty)
       IN IF ins.err = "IntegrityError"
          THEN Outcome(db, ValueError("already exists", meal), <<>>, 1,
                       <<"INSERT">>, <<"error">>)
          ELSE Outcome(ins.db, NoError, <<>>, 1, <<"INSERT">>, <<"info">>)

\* create_meal logging the IntegrityError without raising
create_meal_swallowsDuplicate(db, meal, cuisine, price, difficulty) ==
  IF ~IsNumber(price) \/ price.val <= 0
  THEN Outcome(db, ValueError("Invalid price", price), <<>>, 0, <<>>, <<>>)
  ELSE IF difficulty \notin {"LOW", "MED", "HIGH"}
  THEN Outcome(db, ValueError("Invalid difficulty level", difficulty), <<>>,
               0, <<>>, <<>>)
  ELSE LET ins == SqlInsert(db, meal, cuisine, price, difficulty)
       IN IF ins.err = "IntegrityError"
          THEN Outcome(db, NoError, <<>>, 1, <<"INSERT">>, <<"error">>)
          ELSE Outcome(ins.db, NoError, <<>>, 1, <<"INSERT">>, <<"info">>)

\* create_meal with INSERT OR IGNORE: a row of the same name makes the
\* statement do nothing, and the call returns as if it had inserted
create_meal_insertOrIgnore(db, meal, cuisine, price, difficulty) ==
  IF ~IsNumber(price) \/ price.val <= 0
  THEN Outcome(db, ValueError("Invalid price", price), <<>>, 0, <<>>, <<>>)
  ELSE IF difficulty \notin {"LOW", "MED", "HIGH"}
  THEN Outcome(db, ValueError("Invalid difficulty level", difficulty), <<>>,
               0, <<>>, <<>>)
  ELSE LET ins == SqlInsert(db, meal, cuisine, price, difficulty)
       IN Outcome(ins.db, NoError, <<>>, 1, <<"INSERT">>, <<"info">>)

\* create_meal with INSERT OR REPLACE: a row of the same name is removed and
\* the new row takes the next id
create_meal_insertOrReplace(db, meal, cuisine, price, difficulty) ==
  IF ~IsNumber(price) \/ price.val <= 0
  THEN Outcome(db, ValueError("Invalid price", price), <<>>, 0, <<>>, <<>>)
  ELSE IF difficulty \notin {"LOW", "MED", "HIGH"}
  THEN Outcome(db, ValueError("Invalid difficulty level", difficulty), <<>>,
               0, <<>>, <<>>)
  ELSE LET kept == SelectSeq(db, LAMBDA r : r.meal # meal)
       IN Outcome(Append(kept, [id |-> Len(db) + 1, meal |-> meal,
                                cuisine |-> cuisine, price |-> ToReal(price),
                                difficulty |-> difficulty, deleted |-> FALSE,
                                battles |-> 0, wins |-> 0]),
                  NoError, <<>>, 1, <<"INSERT">>, <<"info">>)

create_meal(db, meal, cuisine, price, difficulty) ==
  IF ~IsNumber(price) \/ price.val <= 0
  THEN Outcome(db, ValueError("Invalid price", price), <<>>, 0, <<>>, <<>>)
  ELSE IF difficulty \notin {"LOW", "MED", "HIGH"}
  THEN Outcome(db, ValueError("Invalid difficulty level", difficulty), <<>>,
               0, <<>>, <<>>)
  ELSE LET ins == SqlInsert(db, meal, cuisine, price, difficulty)
       IN IF ins.err = "IntegrityError"
          THEN Outcome(db, ValueError("already exists", meal), <<>>, 1,
                       <<"INSERT">>, <<"error">>)
          ELSE Outcome(ins.db, NoError, <<>>, 1, <<"INSERT">>, <<"info">>)

\* ------------------------------------------------------------ delete_meal
\* delete_meal without the test of the deleted flag
delete_meal_noDeletedCheck(db, meal_id) ==
  LET row == SqlSelectById(db, meal_id)
  IN IF row = <<>>
     THEN Outcome(db, ValueError("not found", meal_id), <<>>, 1,
                  <<"SELECT">>, <<"info">>)
     ELSE Outcome(SqlSetDeleted(db, meal_id), NoError, <<>>, 1,
                  <<"SELECT", "UPDATE">>, <<"info">>)

\* delete_meal removing the row (DELETE FROM meals WHERE id = ?)
delete_meal_hardDelete(db, meal_id) ==
  LET row == SqlSelectById(db, meal_id)
  IN IF row = <<>>
     THEN Outcome(db, ValueError("not found", meal_id), <<>>, 1,
                  <<"SELECT">>, <<"info">>)
     ELSE IF row[1].deleted
     THEN Outcome(db, ValueError("has been deleted", meal_id), <<>>, 1,
                  <<"SELECT">>, <<"info">>)
     ELSE Outcome(SelectSeq(db, LAMBDA r : r.id # meal_id), NoError, <<>>, 1,
                  <<"SELECT", "DELETE">>, <<"info">>)

delete_meal(db, meal_id) ==
  LET row == SqlSelectById(db, meal_id)
  IN IF row = <<>>
     THEN Outcome(db, ValueError("not found", meal_id), <<>>, 1,
                  <<"SELECT">>, <<"info">>)
     ELSE IF row[1].deleted
     THEN Outcome(db, ValueError("has been deleted", meal_id), <<>>, 1,
                  <<"SELECT">>, <<"info">>)
     ELSE Outcome(SqlSetDeleted(db, meal_id), NoError, <<>>, 1,
                  <<"SELECT", "UPDATE">>, <<"info">>)

\* ---------------------------------------------------------- get_meal_by_id
\* get_meal_by_id reporting a deleted row as not found
get_meal_by_id_deletedAsMissing(db, meal_id) ==
  LET row == SqlSelectById(db, meal_id)
  IN IF row # <<>> /\ ~row[1].deleted
     THEN Outcome(db, NoError, <<Meal(row[1])>>, 1, <<"SELECT">>, <<>>)
     ELSE Outcome(db, ValueError("not found", meal_id), <<>>, 1,
                  <<"SELECT">>, <<"info">>)

get_meal_by_id(db, meal_id) ==
  LET row == SqlSelectById(db, meal_id)
  IN IF row # <<>>
     THEN IF row[1].deleted
          THEN Outcome(db, ValueError("has been deleted", meal_id), <<>>, 1,
                       <<"SELECT">>, <<"info">>)
          ELSE IF Meal_post_init(row[1].price, row[1].difficulty).exc # "none"
          THEN Outcome(db, Meal_post_init(row[1].price, row[1].difficulty),
                       <<>>, 1, <<"SELECT">>, <<>>)
          ELSE Outcome(db, NoError, <<Meal(row[1])>>, 1, <<"SELECT">>, <<>>)
     ELSE Outcome(db, ValueError("not found", meal_id), <<>>, 1,
                  <<"SELECT">>, <<"info">>)

\* -------------------------------------------------------- get_meal_by_name
get_meal_by_name(db, meal_name) ==
  LET row == SqlSelectByName(db, meal_name)
  IN IF row # <<>>
     THEN IF row[1].deleted
          THEN Outcome(db, ValueError("has been deleted", meal_name), <<>>,
                       1, <<"SELECT">>, <<"info">>)
          ELSE IF Meal_post_init(row[1].price, row[1].difficulty).exc # "none"
          THEN Outcome(db, Meal_post_init(row[1].price, row[1].difficulty),
                       <<>>, 1, <<"SELECT">>, <<>>)
          ELSE Outcome(db, NoError, <<Meal(row[1])>>, 1, <<"SELECT">>, <<>>)
     ELSE Outcome(db, ValueError("not found", meal_name), <<>>, 1,
                  <<"SELECT">>, <<"info">>)

\* ------------------------------------------------------- update_meal_stats
\* update_meal_stats running the win statement for a loss too
update_meal_stats_lossAddsWin(db, meal_id, result) ==
  LET row == SqlSelectById(db, meal_id)
  IN IF row = <<>>
     THEN Outcome(db, ValueError("not found", meal_id), <<>>, 1,
                  <<"SELECT">>, <<"info">>)
     ELSE IF row[1].deleted
     THEN Outcome(db, ValueError("has been deleted", meal_id), <<>>, 1,
                  <<"SELECT">>, <<"info">>)
     ELSE IF result \in {"win", "loss"}
     THEN Outcome(SqlAddWin(db, meal_id), NoError, <<>>, 1,
                  <<"SELECT", "UPDATE">>, <<>>)
     ELSE Outcome(db, ValueError("Invalid result", result), <<>>, 1,
                  <<"SELECT">>, <<>>)

\* update_meal_stats validating the result before the lookup
update_meal_stats_validateFirst(db, meal_id, result) ==
  LET row == SqlSelectById(db, meal_id)
  IN IF result \notin {"win", "loss"}
     THEN Outcome(db, ValueError("Invalid result", result), <<>>, 0, <<>>,
                  <<>>)
     ELSE IF row = <<>>
     THEN Outcome(db, ValueError("not found", meal_id), <<>>, 1,
                  <<"SELECT">>, <<"info">>)
     ELSE IF row[1].deleted
     THEN Outcome(db, ValueError("has been deleted", meal_id), <<>>, 1,
                  <<"SELECT">>, <<"info">>)
     ELSE IF result = "win"
     THEN Outcome(SqlAddWin(db, meal_id), NoError, <<>>, 1,
                  <<"SELECT", "UPDATE">>, <<>>)
     ELSE Outcome(SqlAddLoss(db, meal_id), NoError, <<>>, 1,
                  <<"SELECT", "UPDATE">>, <<>>)

update_meal_stats(db, meal_id, result) ==
  LET row == SqlSelectById(db, meal_id)
  IN IF row = <<>>
     THEN Outcome(db, ValueError("not found", meal_id), <<>>, 1,
                  <<"SELECT">>, <<"info">>)
     ELSE IF row[1].deleted
     THEN Outcome(db, ValueError("has been deleted", meal_id), <<>>, 1,
                  <<"SELECT">>, <<"info">>)
     ELSE IF result = "win"
     THEN Outcome(SqlAddWin(db, meal_id), NoError, <<>>, 1,
                  <<"SELECT", "UPDATE">>, <<>>)
     ELSE IF result = "loss"
     THEN Outcome(SqlAddLoss(db, meal_id), NoError, <<>>, 1,
                  <<"SELECT", "UPDATE">>, <<>>)
     ELSE Outcome(db, ValueError("Invalid result", result), <<>>, 1,
                  <<"SELECT">>, <<>>)

\* --------------------------------------------------------- get_leaderboard
\* round(x, 1) of the percentage 100 * wins / battles, in tenths of a
\* percent; Python rounds a tie to the even neighbour.  The floats of the
\* code give this value for every row of fewer than 80 battles (at 80 the
\* product 100 * (wins / battles) of a tie is no longer exact).
\* the percentage cut to one decimal instead of rounded
RoundPct_truncated(wins, battles) ==
  (1000 * wins) \div battles

RoundPct(wins, battles) ==
  LET q == (1000 * wins) \div battles
      r == (1000 * wins) % battles
  IN IF 2 * r > battles THEN q + 1
     ELSE IF 2 * r < battles THEN q
     ELSE IF q % 2 = 0 THEN q ELSE q + 1

LeaderboardEntry(row) ==
  [id |-> row.id, meal |-> row.meal, cuisine |-> row.cuisine,
   price |-> row.price, difficulty |-> row.difficulty,
   battles |-> row.battles, wins |-> row.wins,
   win_pct |-> RoundPct(row.wins, row.battles)]

\* the leaderboard built from the rows fetched
LeaderboardOf(db, rowsets) ==
  {Outcome(db, NoError, [i \in 1..Len(rows) |-> LeaderboardEntry(rows[i])],
           1, <<"SELECT">>, <<"info">>) : rows \in rowsets}

\* get_leaderboard appending ORDER BY wins DESC for either key
get_leaderboard_alwaysByWins(db, sort_by) ==
  IF sort_by = "win_pct" THEN LeaderboardOf(db, SqlLeaderboard(db, "wins"))
  ELSE IF sort_by = "wins" THEN LeaderboardOf(db, SqlLeaderboard(db, "wins"))
  ELSE {Outcome(db, ValueError("Invalid sort_by parameter", sort_by), <<>>,
                0, <<>>, <<"error">>)}

\* get_leaderboard testing sort_by inside the connection block, after a
\* first query
get_leaderboard_lateValidation(db, sort_by) ==
  IF sort_by = "win_pct" THEN LeaderboardOf(db, SqlLeaderboard(db, "win_pct"))
  ELSE IF sort_by = "wins" THEN LeaderboardOf(db, SqlLeaderboard(db, "wins"))
  ELSE {Outcome(db, ValueError("Invalid sort_by parameter", sort_by), <<>>,
                1, <<"SELECT">>, <<"error">>)}

\* the outcomes the call can have: one for each order sqlite may return
get_leaderboard(db, sort_by) ==
  IF sort_by = "win_pct" THEN LeaderboardOf(db, SqlLeaderboard(db, "win_pct"))
  ELSE IF sort_by = "wins" THEN LeaderboardOf(db, SqlLeaderboard(db, "wins"))
  ELSE {Outcome(db, ValueError("Invalid sort_by parameter", sort_by), <<>>,
                0, <<>>, <<"error">>)}

\* ------------------------------------------------------------ the calls
\* the record of the latest call: the function, its arguments, the table
\* before it and what it did
Call(op, args, pre, res) ==
  [op |-> op, args |-> args, pre |-> pre, err |-> res.err, ret |-> res.ret,
   acquired |-> res.acquired, issued |-> res.issued, logged |-> res.logged]

\* the battles recorded in the whole table
RECURSIVE TotalBattles(_)
TotalBattles(db) ==
  IF db = <<>> THEN 0 ELSE Head(db).battles + TotalBattles(Tail(db))

Init ==
  /\ meals = <<>>
  /\ last = Call("none", <<>>, <<>>, Outcome(<<>>, NoError, <<>>, 0, <<>>, <<>>))
  /\ created = <<>>
  /\ procs = [p \in Procs |-> IdleProc]

\* created: for every create_meal call that returned, the arguments it was
\* given, the id the table gave the row, and whether a delete_meal of that
\* id has returned since
CreateMeal ==
  \E meal \in Names, cuisine \in Cuisines, price \in Prices,
     difficulty \in Difficulties :
    LET res == create_meal(meals, meal, cuisine, price, difficulty)
    IN /\ meals' = res.db
       /\ last' = Call("create_meal",
                       [meal |-> meal, cuisine |-> cuisine, price |-> price,
                        difficulty |-> difficulty], meals, res)
       /\ created' =
            IF res.err.exc = "none"
            THEN Append(created,
                        [id |-> res.db[Len(res.db)].id, meal |-> meal,
                         cuisine |-> cuisine, price |-> price,
                         difficulty |-> difficulty, deleted |-> FALSE])
            ELSE created
       /\ UNCHANGED procs

DeleteMeal ==
  \E meal_id \in Ids :
    LET res == delete_meal(meals, meal_id)
    IN /\ meals' = res.db
       /\ last' = Call("delete_meal", [meal_id |-> meal_id], meals, res)
       /\ created' =
            [i \in 1..Len(created) |->
               IF res.err.exc = "none" /\ created[i].id = meal_id
               THEN [created[i] EXCEPT !.deleted = TRUE] ELSE created[i]]
       /\ UNCHANGED procs

GetMealById ==
  \E meal_id \in Ids :
    LET res == get_meal_by_id(meals, meal_id)
    IN /\ meals' = res.db
       /\ last' = Call("get_meal_by_id", [meal_id |-> meal_id], meals, res)
       /\ UNCHANGED <<created, procs>>

GetMealByName ==
  \E meal_name \in Names :
    LET res == get_meal_by_name(meals, meal_name)
    IN /\ meals' = res.db
       /\ last' = Call("get_meal_by_name", [meal_name |-> meal_name], meals,
                       res)
       /\ UNCHANGED <<created, procs>>

UpdateMealStats ==
  \E meal_id \in Ids, result \in Results :
    LET res == update_meal_stats(meals, meal_id, result)
    IN /\ res.db # meals => TotalBattles(meals) < MaxBattles
       /\ meals' = res.db
       /\ last' = Call("update_meal_stats",
                       [meal_id |-> meal_id, result |-> result], meals, res)
       /\ UNCHANGED <<created, procs>>

GetLeaderboard ==
  \E sort_by \in SortKeys :
    \E res \in get_leaderboard(meals, sort_by) :
      /\ meals' = res.db
      /\ last' = Call("get_leaderboard", [sort_by |-> sort_by], meals, res)
      /\ UNCHANGED <<created, procs>>

Next ==
  \/ CreateMeal
  \/ DeleteMeal
  \/ GetMealById
  \/ GetMealByName
  \/ UpdateMealStats
  \/ GetLeaderboard

Spec == Init /\ [][Next]_vars

\* ------------------------------------------------ calls that interleave
\* Two callers, each on a connection of its own.  A call is cut where it
\* talks to the database: acquiring the connection, each SELECT, and each
\* INSERT or UPDATE together with its commit (until the commit the other
\* connection reads the table as it was, so the row changes at one point).
\* What a function does between two of these is local and belongs to the
\* step before.  Any of these points may raise sqlite3.Error.  last and
\* created record calls that run alone and stay as they are here.

\* a persistence fault: the except sqlite3.Error clause of every function
StoreError == [exc |-> "sqlite3.Error", msg |-> "Database error", about |-> 0]

ConcCreates ==
  {[meal |-> "Manti", cuisine |-> "Turkish", price |-> price,
    difficulty |-> "HIGH"] : price \in {PyInt(-5), PyInt(12)}}

ConcIds == {1, 2}

ConcCalls ==
  {[op |-> "create_meal", args |-> a] : a \in ConcCreates}
  \cup {[op |-> "delete_meal", args |-> [meal_id |-> i]] : i \in ConcIds}
  \cup {[op |-> "get_meal_by_id", args |-> [meal_id |-> i]] : i \in ConcIds}
  \cup {[op |-> "get_meal_by_name", args |-> [meal_name |-> "Manti"]]}
  \cup {[op |-> "update_meal_stats",
         args |-> [meal_id |-> i, result |-> r]] :
          i \in ConcIds, r \in Results}
  \cup {[op |-> "get_leaderboard", args |-> [sort_by |-> k]] : k \in SortKeys}

Running(r) == r.pc \notin {"idle", "done"}

\* the caller has entered the function and is about to acquire a connection
Entered(c) ==
  [IdleProc EXCEPT !.op = c.op, !.args = c.args, !.pc = "connect"]

\* an exception leaves the function: the with block, if entered, releases
\* the connection, the log records are emitted, the exception propagates
Raised_keepsConnection(r, err, logs) ==
  [r EXCEPT !.pc = "done", !.err = err, !.logged = @ \o logs]

Raised(r, err, logs) ==
  [r EXCEPT !.pc = "done", !.held = 0, !.err = err, !.logged = @ \o logs]

\* the function returns: the with block releases the connection
Returned(r, ret, logs) ==
  [r EXCEPT !.pc = "done", !.held = 0, !.ret = ret, !.logged = @ \o logs]

\* the tests a function makes before it acquires a connection
Entry(c) ==
  IF c.op = "create_meal"
       /\ (~IsNumber(c.args.price) \/ c.args.price.val <= 0)
  THEN Raised(Entered(c), ValueError("Invalid price", c.args.price), <<>>)
  ELSE IF c.op = "create_meal"
            /\ c.args.difficulty \notin {"LOW", "MED", "HIGH"}
  THEN Raised(Entered(c),
              ValueError("Invalid difficulty level", c.args.difficulty), <<>>)
  ELSE IF c.op = "get_leaderboard" /\ c.args.sort_by \notin {"win_pct", "wins"}
  THEN Raised(Entered(c),
              ValueError("Invalid sort_by parameter", c.args.sort_by),
              <<"error">>)
  ELSE Entered(c)

\* caller p moves to r; a step of p falls inside the call of every other
\* caller that is running (mixed: another caller has taken a step since
\* this call began)
Step(p, r) ==
  procs' = [q \in Procs |->
              IF q = p THEN r
              ELSE IF Running(procs[q]) THEN [procs[q] EXCEPT !.mixed = TRUE]
              ELSE procs[q]]

\* the battles that the running update_meal_stats calls may still add
PendingBattles ==
  Cardinality({q \in Procs :
                 /\ Running(procs[q])
                 /\ procs[q].op = "update_meal_stats"
                 /\ procs[q].args.result \in {"win", "loss"}})

BeginCall(p) ==
  /\ ~Running(procs[p])
  /\ \E c \in ConcCalls :
       /\ (c.op = "update_meal_stats" /\ c.args.result \in {"win", "loss"})
            => TotalBattles(meals) + PendingBattles < MaxBattles
       /\ Step(p, Entry(c))
  /\ UNCHANGED <<meals, last, created>>

\* with get_db_connection() as conn
Connect(p) ==
  /\ procs[p].pc = "connect"
  /\ Step(p, [procs[p] EXCEPT
                !.held = 1,
                !.pc = IF procs[p].op = "create_meal" THEN "insert"
                       ELSE "select"])
  /\ UNCHANGED <<meals, last, created>>

\* sqlite3.Error raised by get_db_connection, execute or commit: nothing is
\* committed, the handler logs the error and raises it again
Fault(p) ==
  /\ procs[p].pc \in {"connect", "insert", "select", "update"}
  /\ Step(p, Raised(procs[p], StoreError, <<"error">>))
  /\ UNCHANGED <<meals, last, created>>

\* create_meal: INSERT, commit, log, return; or IntegrityError
CreateInsert(p) ==
  /\ procs[p].pc = "insert"
  /\ LET a == procs[p].args
         ins == SqlInsert(meals, a.meal, a.cuisine, a.price, a.difficulty)
     IN IF ins.err = "IntegrityError"
        THEN /\ Step(p, Raised(procs[p], ValueError("already exists", a.meal),
                               <<"error">>))
             /\ UNCHANGED meals
        ELSE /\ Step(p, Returned(procs[p], <<>>, <<"info">>))
             /\ meals' = ins.db
  /\ UNCHANGED <<last, created>>

\* delete_meal: SELECT deleted, fetchone, the test of the flag
DeleteSelect(p) ==
  /\ procs[p].pc = "select"
  /\ procs[p].op = "delete_meal"
  /\ LET id == procs[p].args.meal_id
         row == SqlSelectById(meals, id)
     IN IF row = <<>>
        THEN Step(p, Raised(procs[p], ValueError("not found", id), <<"info">>))
        ELSE IF row[1].deleted
        THEN Step(p, Raised([procs[p] EXCEPT !.seen = <<TRUE>>],
                            ValueError("has been deleted", id), <<"info">>))
        ELSE Step(p, [procs[p] EXCEPT !.seen = <<FALSE>>, !.pc = "update"])
  /\ UNCHANGED <<meals, last, created>>

\* DeleteUpdate with the flag tested again in the UPDATE (WHERE id = ? AND
\* deleted = FALSE, no row changed raising the already-deleted error)
DeleteUpdate_rechecks(p) ==
  /\ procs[p].pc = "update"
  /\ procs[p].op = "delete_meal"
  /\ IF SqlSelectById(meals, procs[p].args.meal_id)[1].deleted
     THEN /\ Step(p, Raised(procs[p],
                            ValueError("has been deleted",
                                       procs[p].args.meal_id), <<"info">>))
          /\ UNCHANGED meals
     ELSE /\ meals' = SqlSetDeleted(meals, procs[p].args.meal_id)
          /\ Step(p, Returned(procs[p], <<>>, <<"info">>))
  /\ UNCHANGED <<last, created>>

\* delete_meal: UPDATE ... SET deleted = TRUE, commit, log, return
DeleteUpdate(p) ==
  /\ procs[p].pc = "update"
  /\ procs[p].op = "delete_meal"
  /\ meals' = SqlSetDeleted(meals, procs[p].args.meal_id)
  /\ Step(p, Returned(procs[p], <<>>, <<"info">>))
  /\ UNCHANGED <<last, created>>

\* get_meal_by_id, get_meal_by_name, get_leaderboard: one SELECT, then the
\* result is built from the rows fetched
ReadSelect(p) ==
  /\ procs[p].pc = "select"
  /\ procs[p].op \in {"get_meal_by_id", "get_meal_by_name", "get_leaderboard"}
  /\ \E res \in
         IF procs[p].op = "get_meal_by_id"
         THEN {get_meal_by_id(meals, procs[p].args.meal_id)}
         ELSE IF procs[p].op = "get_meal_by_name"
         THEN {get_meal_by_name(meals, procs[p].args.meal_name)}
         ELSE get_leaderboard(meals, procs[p].args.sort_by) :
       IF res.err.exc = "none"
       THEN Step(p, Returned(procs[p], res.ret, res.logged))
       ELSE Step(p, Raised(procs[p], res.err, res.logged))
  /\ UNCHANGED <<meals, last, created>>

\* UpdateSelect without the test of the deleted flag
UpdateSelect_noDeletedCheck(p) ==
  /\ procs[p].pc = "select"
  /\ procs[p].op = "update_meal_stats"
  /\ LET id == procs[p].args.meal_id
         row == SqlSelectById(meals, id)
     IN IF row = <<>>
        THEN Step(p, Raised(procs[p], ValueError("not found", id), <<"info">>))
        ELSE IF procs[p].args.result \notin {"win", "loss"}
        THEN Step(p, Raised([procs[p] EXCEPT !.seen = <<row[1].deleted>>],
                            ValueError("Invalid result",
                                       procs[p].args.result), <<>>))
        ELSE Step(p, [procs[p] EXCEPT !.seen = <<row[1].deleted>>,
                                      !.pc = "update"])
  /\ UNCHANGED <<meals, last, created>>

\* update_meal_stats: SELECT deleted, fetchone, the test of the flag, the
\* test of result
UpdateSelect(p) ==
  /\ procs[p].pc = "select"
  /\ procs[p].op = "update_meal_stats"
  /\ LET id == procs[p].args.meal_id
         row == SqlSelectById(meals, id)
     IN IF row = <<>>
        THEN Step(p, Raised(procs[p], ValueError("not found", id), <<"info">>))
        ELSE IF row[1].deleted
        THEN Step(p, Raised([procs[p] EXCEPT !.seen = <<TRUE>>],
                            ValueError("has been deleted", id), <<"info">>))
        ELSE IF procs[p].args.result \notin {"win", "loss"}
        THEN Step(p, Raised([procs[p] EXCEPT !.seen = <<FALSE>>],
                            ValueError("Invalid result",
                                       procs[p].args.result), <<>>))
        ELSE Step(p, [procs[p] EXCEPT !.seen = <<FALSE>>, !.pc = "update"])
  /\ UNCHANGED <<meals, last, created>>

\* update_meal_stats: the UPDATE of the counters, commit, return;
\* onDeleted: the row was deleted when its counters were written
UpdateWrite(p) ==
  /\ procs[p].pc = "update"
  /\ procs[p].op = "update_meal_stats"
  /\ meals' = IF procs[p].args.result = "win"
              THEN SqlAddWin(meals, procs[p].args.meal_id)
              ELSE SqlAddLoss(meals, procs[p].args.meal_id)
  /\ Step(p, Returned([procs[p] EXCEPT
                         !.onDeleted =
                           SqlSelectById(meals, procs[p].args.meal_id)[1].deleted],
                      <<>>, <<>>))
  /\ UNCHANGED <<last, created>>

NextConc ==
  \E p \in Procs :
    \/ BeginCall(p)
    \/ Connect(p)
    \/ Fault(p)
    \/ CreateInsert(p)
    \/ DeleteSelect(p)
    \/ DeleteUpdate(p)
    \/ ReadSelect(p)
    \/ UpdateSelect(p)
    \/ UpdateWrite(p)

SpecConc == Init /\ [][NextConc]_vars

\* ------------------------------------------- the Meal constructor alone
\* Meal(id, meal, cuisine, price, difficulty): the dataclass fields are set,
\* then __post_init__ runs
NewMeal(row) ==
  IF Meal_post_init(row.price, row.difficulty).exc # "none"
  THEN Outcome(<<>>, Meal_post_init(row.price, row.difficulty), <<>>, 0,
               <<>>, <<>>)
  ELSE Outcome(<<>>, NoError, <<Meal(row)>>, 0, <<>>, <<>>)

MealPrices == {PyInt(-5), PyInt(0), PyFloat(0), PyInt(12), PyFloat(15)}

MealDifficulties == {"LOW", "MED", "HIGH", "EXTREME"}

MealArgs ==
  [id : Ids, meal : Names, cuisine : Cuisines, price : MealPrices,
   difficulty : MealDifficulties]

InitMeal ==
  /\ meals = <<>>
  /\ last \in {Call("arguments", a, <<>>,
                    Outcome(<<>>, NoError, <<>>, 0, <<>>, <<>>)) :
                 a \in MealArgs}
  /\ created = <<>>
  /\ procs = [p \in Procs |-> IdleProc]

ConstructMeal ==
  /\ last.op = "arguments"
  /\ last' = Call("Meal", last.args, <<>>, NewMeal(last.args))
  /\ UNCHANGED <<meals, created, procs>>

SpecMeal == InitMeal /\ [][ConstructMeal]_vars

\* --------------------------------------- the leaderboard entry of one row
PctRow(b, w) ==
  [id |-> 1, meal |-> "Manti", cuisine |-> "Turkish", price |-> PyFloat(12),
   difficulty |-> "HIGH", deleted |-> FALSE, battles |-> b, wins |-> w]

\* the rows the query can select: 0 <= wins <= battles, battles > 0
PctRows ==
  UNION {{PctRow(b, w) : w \in 0..b} : b \in 1..MaxPctBattles}

InitPct ==
  /\ meals = <<>>
  /\ last \in {Call("row", r, <<>>,
                    Outcome(<<>>, NoError, <<>>, 0, <<>>, <<>>)) :
                 r \in PctRows}
  /\ created = <<>>
  /\ procs = [p \in Procs |-> IdleProc]

BuildEntry ==
  /\ last.op = "row"
  /\ last' = Call("entry", last.args, <<>>,
                  Outcome(<<>>, NoError, <<LeaderboardEntry(last.args)>>, 0,
                          <<>>, <<>>))
  /\ UNCHANGED <<meals, created, procs>>

SpecPct == InitPct /\ [][BuildEntry]_vars

\* ------------------------------------------------------- error kinds
\* the error kind of the specification an exception stands for; delete's
\* AlreadyDeletedError and the lookups' DeletedError are the same message
\* ("... has been deleted") and are both named DeletedError here
Kind(e) ==
  IF e.exc = "none" THEN "ok"
  ELSE IF e.msg \in {"Invalid price", "Invalid difficulty level",
                     "Invalid result", "Invalid sort_by parameter"}
  THEN "ValidationError"
  ELSE IF e.msg = "already exists" THEN "DuplicateError"
  ELSE IF e.msg = "not found" THEN "NotFoundError"
  ELSE IF e.msg = "has been deleted" THEN "DeletedError"
  ELSE "other"

HasId(db, id) == \E i \in 1..Len(db) : db[i].id = id

RowOfId(db, id) == db[CHOOSE i \in 1..Len(db) : db[i].id = id]

HasName(db, name) == \E i \in 1..Len(db) : db[i].meal = name

RowOfName(db, name) == db[CHOOSE i \in 1..Len(db) : db[i].meal = name]

Live(db, id) == HasId(db, id) /\ ~RowOfId(db, id).deleted

Gone(db, id) == HasId(db, id) /\ RowOfId(db, id).deleted

\* a Meal value carries the id, name, cuisine, price and difficulty of row
IsMealOf(ret, row) ==
  /\ Len(ret) = 1
  /\ ret[1].id = row.id
  /\ ret[1].meal = row.meal
  /\ ret[1].cuisine = row.cuisine
  /\ PyEq(ret[1].price, row.price)
  /\ ret[1].difficulty = row.difficulty

\* ------------------------------------------------------------- claims
\* C1: delete_meal(id) fails with "not found" when no row has the id, fails
\* with "has been deleted" when the row is already deleted, and otherwise
\* returns having set deleted on that row; the two failures leave the table
\* as it was, the success changes nothing but that flag.
C1_DeleteOutcomes ==
  last.op = "delete_meal" =>
    LET id == last.args.meal_id
        pre == last.pre
    IN /\ ~HasId(pre, id) =>
            Kind(last.err) = "NotFoundError" /\ meals = pre
       /\ Gone(pre, id) =>
            Kind(last.err) = "DeletedError" /\ meals = pre
       /\ Live(pre, id) =>
            /\ Kind(last.err) = "ok"
            /\ Len(meals) = Len(pre)
            /\ \A i \in 1..Len(pre) :
                 meals[i] = IF pre[i].id = id
                            THEN [pre[i] EXCEPT !.deleted = TRUE]
                            ELSE pre[i]

\* a delete_meal that returned, on a table of two rows, after another
\* delete_meal of the same id would fail
C1_Witness ==
  /\ last.op = "delete_meal"
  /\ Kind(last.err) = "ok"
  /\ Len(meals) = 2
  /\ Gone(meals, last.args.meal_id)
  /\ Live(last.pre, last.args.meal_id)

\* C2: get_meal_by_id returns the Meal of the row exactly when a row with
\* the id exists and is not deleted, fails with "not found" when there is
\* no row and with "has been deleted" when the row is deleted;
\* get_meal_by_name does the same by name; a meal whose delete_meal has
\* returned is reported as deleted, never as not found.
C2_GetContract ==
  /\ last.op = "get_meal_by_id" =>
       LET id == last.args.meal_id
       IN /\ Live(last.pre, id) =>
               Kind(last.err) = "ok" /\ IsMealOf(last.ret, RowOfId(last.pre, id))
          /\ ~HasId(last.pre, id) => Kind(last.err) = "NotFoundError"
          /\ Gone(last.pre, id) => Kind(last.err) = "DeletedError"
  /\ last.op = "get_meal_by_name" =>
       LET name == last.args.meal_name
       IN /\ HasName(last.pre, name) /\ ~RowOfName(last.pre, name).deleted =>
               /\ Kind(last.err) = "ok"
               /\ IsMealOf(last.ret, RowOfName(last.pre, name))
          /\ ~HasName(last.pre, name) => Kind(last.err) = "NotFoundError"
          /\ HasName(last.pre, name) /\ RowOfName(last.pre, name).deleted =>
               Kind(last.err) = "DeletedError"
  /\ \A i \in 1..Len(created) :
       created[i].deleted =>
         Kind(get_meal_by_id(meals, created[i].id).err) = "DeletedError"

\* get_meal_by_id of a meal that an earlier delete_meal deleted
C2_Witness ==
  /\ last.op = "get_meal_by_id"
  /\ Kind(last.err) = "DeletedError"
  /\ \E i \in 1..Len(created) :
       created[i].deleted /\ created[i].id = last.args.meal_id

\* C3: create_meal with a price that is no number or is <= 0, or with a
\* difficulty outside LOW, MED, HIGH, fails with a validation error, having
\* acquired no connection and executed no statement; the table is unchanged.
C3_CreateValidation ==
  ( /\ last.op = "create_meal"
    /\ \/ ~IsNumber(last.args.price)
       \/ last.args.price.val <= 0
       \/ last.args.difficulty \notin {"LOW", "MED", "HIGH"} )
  => /\ Kind(last.err) = "ValidationError"
     /\ last.acquired = 0
     /\ last.issued = <<>>
     /\ meals = last.pre

\* create_meal with price 0.0 and a valid difficulty on a table with a row
C3_Witness ==
  /\ last.op = "create_meal"
  /\ last.args.price.type = "float"
  /\ last.args.price.val = 0
  /\ last.args.difficulty = "HIGH"
  /\ ~HasName(meals, last.args.meal)
  /\ Len(meals) = 1

\* C4: create_meal with a valid price and difficulty and the name of an
\* existing row fails with the duplicate error naming that name, adds no
\* row and changes no row.
C4_DuplicateName ==
  ( /\ last.op = "create_meal"
    /\ IsNumber(last.args.price)
    /\ last.args.price.val > 0
    /\ last.args.difficulty \in {"LOW", "MED", "HIGH"}
    /\ HasName(last.pre, last.args.meal) )
  => /\ Kind(last.err) = "DuplicateError"
     /\ last.err.about = last.args.meal
     /\ meals = last.pre

\* a second create_meal of a name, with another cuisine than the first
C4_Witness ==
  /\ last.op = "create_meal"
  /\ Kind(last.err) = "DuplicateError"
  /\ Len(meals) = 2
  /\ RowOfName(meals, last.args.meal).cuisine # last.args.cuisine

\* C5: update_meal_stats on an existing row that is not deleted adds 1 to
\* battles and to wins for 'win', 1 to battles alone for 'loss', and changes
\* nothing else of that row and no other row.
C5_UpdateStats ==
  ( /\ last.op = "update_meal_stats"
    /\ last.args.result \in {"win", "loss"}
    /\ Live(last.pre, last.args.meal_id) )
  => /\ Kind(last.err) = "ok"
     /\ Len(meals) = Len(last.pre)
     /\ \A i \in 1..Len(last.pre) :
          meals[i] =
            IF last.pre[i].id # last.args.meal_id THEN last.pre[i]
            ELSE IF last.args.result = "win"
            THEN [last.pre[i] EXCEPT !.battles = @ + 1, !.wins = @ + 1]
            ELSE [last.pre[i] EXCEPT !.battles = @ + 1]

\* a loss recorded for a meal that has a win, on a table of two rows
C5_Witness ==
  /\ last.op = "update_meal_stats"
  /\ last.args.result = "loss"
  /\ Kind(last.err) = "ok"
  /\ Len(meals) = 2
  /\ RowOfId(meals, last.args.meal_id).wins = 1
  /\ RowOfId(meals, last.args.meal_id).battles = 2

\* C6: update_meal_stats looks the row up before it looks at the result:
\* whatever the result, an unknown id fails with "not found" and a deleted
\* one with "has been deleted"; "Invalid result" is raised only for an
\* existing, not deleted row with a result other than win or loss, and then
\* the table is unchanged.
C6_LookupBeforeValidation ==
  last.op = "update_meal_stats" =>
    LET id == last.args.meal_id
    IN /\ Len(last.issued) >= 1 /\ last.issued[1] = "SELECT"
       /\ ~HasId(last.pre, id) => Kind(last.err) = "NotFoundError"
       /\ Gone(last.pre, id) => Kind(last.err) = "DeletedError"
       /\ Kind(last.err) = "ValidationError" <=>
            (Live(last.pre, id) /\ last.args.result \notin {"win", "loss"})
       /\ Kind(last.err) = "ValidationError" =>
            last.err.msg = "Invalid result" /\ meals = last.pre

\* an invalid result given for a deleted meal
C6_Witness ==
  /\ last.op = "update_meal_stats"
  /\ last.args.result = "draw"
  /\ Gone(last.pre, last.args.meal_id)
  /\ Kind(last.err) = "DeletedError"

\* C7: get_leaderboard('wins' or 'win_pct') returns one entry for every row
\* that is not deleted and has battles > 0, none for any other row, and
\* leaves the table unchanged.
C7_LeaderboardMembers ==
  (last.op = "get_leaderboard" /\ last.args.sort_by \in {"wins", "win_pct"})
  => /\ Kind(last.err) = "ok"
     /\ meals = last.pre
     /\ \A j \in 1..Len(last.ret) : HasId(last.pre, last.ret[j].id)
     /\ \A i \in 1..Len(last.pre) :
          Cardinality({j \in 1..Len(last.ret) :
                         last.ret[j].id = last.pre[i].id}) =
            IF ~last.pre[i].deleted /\ last.pre[i].battles > 0 THEN 1 ELSE 0

\* a leaderboard of one entry from a table whose other row has battles and
\* is deleted
C7_Witness ==
  /\ last.op = "get_leaderboard"
  /\ Kind(last.err) = "ok"
  /\ Len(last.ret) = 1
  /\ \E i \in 1..Len(meals) : meals[i].deleted /\ meals[i].battles > 0

\* C8: the entries get_leaderboard returns are in descending order of the
\* chosen key: wins for 'wins', the exact ratio wins / battles for 'win_pct'.
C8_LeaderboardOrder ==
  last.op = "get_leaderboard" =>
    \A j \in 1..Len(last.ret) - 1 :
      /\ last.args.sort_by = "wins" =>
           last.ret[j].wins >= last.ret[j + 1].wins
      /\ last.args.sort_by = "win_pct" =>
           last.ret[j].wins * last.ret[j + 1].battles >=
             last.ret[j + 1].wins * last.ret[j].battles

\* a leaderboard by win_pct whose first entry has the higher ratio and no
\* more wins than the second
C8_Witness ==
  /\ last.op = "get_leaderboard"
  /\ last.args.sort_by = "win_pct"
  /\ Len(last.ret) = 2
  /\ last.ret[1].wins * last.ret[2].battles >
       last.ret[2].wins * last.ret[1].battles
  /\ last.ret[1].wins <= last.ret[2].wins
  /\ last.ret[2].wins > 0

\* C9: get_leaderboard with a sort_by other than 'wins' and 'win_pct' fails
\* with a validation error having acquired no connection and executed no
\* query.
C9_InvalidSortKey ==
  (last.op = "get_leaderboard" /\ last.args.sort_by \notin {"wins", "win_pct"})
  => /\ Kind(last.err) = "ValidationError"
     /\ last.acquired = 0
     /\ last.issued = <<>>
     /\ meals = last.pre

\* get_leaderboard('invalid') on a table with a row that has battles
C9_Witness ==
  /\ last.op = "get_leaderboard"
  /\ last.args.sort_by = "invalid"
  /\ \E i \in 1..Len(meals) : ~meals[i].deleted /\ meals[i].battles > 0

\* C10: for every create_meal that returned and whose meal no delete_meal
\* has deleted since, get_meal_by_name of its name and get_meal_by_id of the
\* id the table gave it both return, return the same Meal, and that Meal's
\* name, cuisine, price and difficulty equal the arguments of create_meal.
C10_RoundTrip ==
  \A i \in 1..Len(created) :
    ~created[i].deleted =>
      LET c == created[i]
          a == get_meal_by_id(meals, c.id)
          b == get_meal_by_name(meals, c.meal)
      IN /\ Kind(a.err) = "ok"
         /\ Kind(b.err) = "ok"
         /\ a.ret = b.ret
         /\ Len(a.ret) = 1
         /\ a.ret[1].id = c.id
         /\ a.ret[1].meal = c.meal
         /\ a.ret[1].cuisine = c.cuisine
         /\ PyEq(a.ret[1].price, c.price)
         /\ a.ret[1].difficulty = c.difficulty

\* a created meal read back by name after battles were recorded for it and
\* the other meal was deleted
C10_Witness ==
  /\ last.op = "get_meal_by_name"
  /\ Kind(last.err) = "ok"
  /\ Len(created) = 2
  /\ \E i, j \in 1..2 :
       /\ ~created[i].deleted
       /\ created[j].deleted
       /\ created[i].meal = last.args.meal_name
       /\ created[i].cuisine # created[j].cuisine
       /\ RowOfId(meals, created[i].id).battles > 0

\* C11: a create_meal that returns has added exactly one row: its id is the
\* id of no row that was there (deleted or not), its battles and wins are 0,
\* it is not deleted, and every row that was there is unchanged.
C11_CreateAddsOneRow ==
  (last.op = "create_meal" /\ Kind(last.err) = "ok")
  => /\ Len(meals) = Len(last.pre) + 1
     /\ \A i \in 1..Len(last.pre) : meals[i] = last.pre[i]
     /\ ~HasId(last.pre, meals[Len(meals)].id)
     /\ meals[Len(meals)].meal = last.args.meal
     /\ meals[Len(meals)].battles = 0
     /\ meals[Len(meals)].wins = 0
     /\ meals[Len(meals)].deleted = FALSE

\* a second meal created while the first is deleted and has battles
C11_Witness ==
  /\ last.op = "create_meal"
  /\ Kind(last.err) = "ok"
  /\ Len(meals) = 2
  /\ meals[1].deleted
  /\ meals[1].battles > 0

\* C12: every row of the table has 0 <= wins <= battles, after any sequence
\* of calls.
C12_WinsWithinBattles ==
  \A i \in 1..Len(meals) :
    0 <= meals[i].wins /\ meals[i].wins <= meals[i].battles

\* a win recorded for a meal that had only wins, next to a meal with a loss
C12_Witness ==
  /\ last.op = "update_meal_stats"
  /\ last.args.result = "win"
  /\ Kind(last.err) = "ok"
  /\ \E i, j \in 1..Len(meals) :
       /\ meals[i].id = last.args.meal_id
       /\ meals[i].wins = 2
       /\ meals[i].battles = 2
       /\ meals[j].wins = 0
       /\ meals[j].battles = 1

\* C13: no call removes a row, and no call clears the deleted flag of a row:
\* a row of the table is in the table after every step, deleted if it was.
C13_SoftDeleteIrreversible ==
  [][\A i \in 1..Len(meals) :
       /\ HasId(meals', meals[i].id)
       /\ meals[i].deleted => RowOfId(meals', meals[i].id).deleted]_vars

\* a meal created under the name of no row while row 1 is already deleted
C13_Witness ==
  /\ last.op = "create_meal"
  /\ Kind(last.err) = "ok"
  /\ Gone(last.pre, 1)
  /\ Gone(meals, 1)
  /\ Live(meals, 2)

\* C14: every call that fails has emitted a log record before raising.
C14_EveryFailureLogs ==
  last.err.exc # "none" => Len(last.logged) >= 1

\* C19: no two rows, deleted or not, have the same name; for a meal whose
\* delete_meal has returned, get_meal_by_name of its name fails with "has
\* been deleted" and every create_meal of its name with a valid price and
\* difficulty fails with the duplicate error.
C19_DeletedNameReserved ==
  /\ \A i, j \in 1..Len(meals) : i # j => meals[i].meal # meals[j].meal
  /\ \A i \in 1..Len(created) :
       created[i].deleted =>
         /\ Kind(get_meal_by_name(meals, created[i].meal).err) = "DeletedError"
         /\ \A cuisine \in Cuisines, price \in Prices,
               difficulty \in Difficulties :
              (IsNumber(price) /\ price.val > 0
                 /\ difficulty \in {"LOW", "MED", "HIGH"})
              => Kind(create_meal(meals, created[i].meal, cuisine, price,
                                  difficulty).err) = "DuplicateError"

\* a create_meal refused for the name of a deleted meal
C19_Witness ==
  /\ last.op = "create_meal"
  /\ Kind(last.err) = "DuplicateError"
  /\ RowOfName(last.pre, last.args.meal).deleted
  /\ \E i \in 1..Len(created) :
       created[i].deleted /\ created[i].meal = last.args.meal

\* C17: constructing a Meal with a price <= 0 (zero included) or with a
\* difficulty outside LOW, MED, HIGH raises.
C17_MealRejectsNonPositivePrice ==
  ( /\ last.op = "Meal"
    /\ \/ last.args.price.val <= 0
       \/ last.args.difficulty \notin {"LOW", "MED", "HIGH"} )
  => last.err.exc # "none"

\* C18: the win_pct of a leaderboard entry, in tenths of a percent, is an
\* integer nearest to 1000 * wins / battles, lies between 0 and 1000, is 800
\* for 8 wins of 10 battles and 750 for 6 wins of 8.
C18_WinPctRounded ==
  last.op = "entry" =>
    LET b == last.args.battles
        w == last.args.wins
        t == last.ret[1].win_pct
        d == t * b - 1000 * w
    IN /\ 0 <= t /\ t <= 1000
       /\ 2 * d <= b /\ 2 * d >= 0 - b
       /\ (b = 10 /\ w = 8) => t = 800
       /\ (b = 8 /\ w = 6) => t = 750

\* the entry of a row whose percentage, 6.25, lies halfway between two
\* tenths
C18_Witness ==
  /\ last.op = "entry"
  /\ last.args.battles = 16
  /\ last.args.wins = 1
  /\ last.ret[1].win_pct = 62

\* C15: a caller that is in no call holds no connection: every call, however
\* it ends (return, validation or lookup failure, duplicate, persistence
\* fault at any statement), has released the connection it acquired; a
\* caller never holds more than one.
C15_ConnectionsReleased ==
  \A p \in Procs :
    /\ procs[p].held \in {0, 1}
    /\ ~Running(procs[p]) => procs[p].held = 0

\* a delete_meal ended by a persistence fault after its SELECT had found the
\* row, while the other caller is inside a call and holds its connection
C15_Witness ==
  \E p, q \in Procs :
    /\ procs[p].pc = "done"
    /\ procs[p].op = "delete_meal"
    /\ procs[p].err.exc = "sqlite3.Error"
    /\ procs[p].seen = <<FALSE>>
    /\ Running(procs[q])
    /\ procs[q].held = 1

\* C16: delete_meal decides on the flag its SELECT read, not on the flag at
\* the time of its UPDATE: a delete_meal that read deleted = false and met no
\* persistence fault returns, and a delete_meal returns only after reading
\* deleted = false; so two interleaved calls on one id can both return.
C16_DeleteDecidedByLookup ==
  \A p \in Procs :
    (procs[p].op = "delete_meal" /\ procs[p].pc = "done") =>
      /\ (procs[p].seen = <<FALSE>> /\ procs[p].err.exc # "sqlite3.Error")
           => procs[p].err.exc = "none"
      /\ procs[p].err.exc = "none" => procs[p].seen = <<FALSE>>

\* both callers have returned from delete_meal of the same id, each having
\* read deleted = false
C16_Witness ==
  /\ \A p \in Procs :
       /\ procs[p].op = "delete_meal"
       /\ procs[p].pc = "done"
       /\ procs[p].args.meal_id = 1
       /\ procs[p].seen = <<FALSE>>
       /\ procs[p].err.exc = "none"
  /\ Gone(meals, 1)

\* C20: the counters of a deleted row change only in the UPDATE of an
\* update_meal_stats call inside which another caller has taken a step; a
\* call that runs alone never writes them, and an update_meal_stats whose
\* SELECT read deleted = true fails with "has been deleted".
C20_CountersAfterDelete ==
  [][/\ \A i \in 1..Len(meals) :
          ( /\ meals[i].deleted
            /\ \/ meals'[i].battles # meals[i].battles
               \/ meals'[i].wins # meals[i].wins )
          => \E p \in Procs :
               /\ procs[p].op = "update_meal_stats"
               /\ procs[p].pc = "update"
               /\ procs[p].mixed
               /\ procs'[p].pc = "done"
     /\ \A p \in Procs :
          ( /\ procs'[p].op = "update_meal_stats"
            /\ procs'[p].pc = "done"
            /\ procs'[p].seen = <<TRUE>> )
          => procs'[p].err.msg = "has been deleted"]_vars

\* an update_meal_stats that returned having added a win to a row that the
\* other caller's delete_meal had deleted after the lookup
C20_Witness ==
  \E p, q \in Procs :
    /\ procs[p].op = "update_meal_stats"
    /\ procs[p].pc = "done"
    /\ procs[p].err.exc = "none"
    /\ procs[p].onDeleted
    /\ procs[p].seen = <<FALSE>>
    /\ procs[q].op = "delete_meal"
    /\ procs[q].err.exc = "none"
    /\ procs[q].pc = "done"
    /\ \E i \in 1..Len(meals) : meals[i].deleted /\ meals[i].wins = 1

====
